---- MODULE Spec2Model ----
(***************************************************************************)
(* A model of GeminiChatCompletionClient (gemini_client.py): the call      *)
(* chain of complete(), the prompt construction, the tool lookup and       *)
(* execution, the recursive re-call, and the create / create_stream        *)
(* wrappers.  The remote service and the tools are the environment: each   *)
(* remote call either fails or answers with any response of Responses,     *)
(* each tool execution either raises or returns any value of ToolResults.  *)
(***************************************************************************)
EXTENDS Integers, Sequences, FiniteSets, TLC

(* ---------------------------- bounds ----------------------------------- *)

\* longest message sequence a caller passes in
MaxMsgs == 2

\* remote calls explored within one top-level call (the code has no limit)
MaxRounds == 3

(* ---------------------------- data ------------------------------------- *)

SystemMessage(content) ==
    [type |-> "SystemMessage", content |-> content, source |-> "-"]

UserMessage(content, source) ==
    [type |-> "UserMessage", content |-> content, source |-> source]

NoMessage == [type |-> "-", content |-> "", source |-> "-"]

\* the messages callers build their sequences from
MessagePool ==
    { SystemMessage("be brief"),
      UserMessage("hi", "user"),
      UserMessage("", "assistant") }

RECURSIVE SeqsUpTo(_, _)
SeqsUpTo(S, n) ==
    IF n = 0 THEN { <<>> }
    ELSE LET shorter == SeqsUpTo(S, n - 1)
         IN  shorter \cup { Append(s, x) : s \in { t \in shorter : Len(t) = n - 1 }, x \in S }

\* complete's input constraint: a non-empty ordered sequence of messages
MessageLists == { s \in SeqsUpTo(MessagePool, MaxMsgs) : Len(s) > 0 }

FunctionTool(name) == [name |-> name]

\* the tools argument: None (absent), an empty list, or a list of tools
ToolArgs ==
    { [present |-> FALSE, list |-> <<>>],
      [present |-> TRUE,  list |-> <<>>],
      [present |-> TRUE,  list |-> <<FunctionTool("get_weather")>>],
      [present |-> TRUE,  list |-> <<FunctionTool("get_weather"), FunctionTool("get_time")>>] }

NoFunctionCall == [present |-> FALSE, name |-> "", args |-> ""]

FunctionCall(name, args) == [present |-> TRUE, name |-> name, args |-> args]

TextPart(t) == [function_call |-> NoFunctionCall, text |-> t]

CallPart(name, args) == [function_call |-> FunctionCall(name, args), text |-> ""]

NoText == [present |-> FALSE, s |-> ""]

Text(s) == [present |-> TRUE, s |-> s]

\* a response: each candidate is given by its content.parts
Response(candidates, text) == [candidates |-> candidates, text |-> text]

NoResponse == Response(<<>>, NoText)

Responses ==
    { Response(<<>>, NoText),
      Response(<< <<>> >>, NoText),
      Response(<< <<TextPart("hello")>> >>, Text("hello")),
      Response(<< <<TextPart("")>> >>, Text("")),
      Response(<< <<TextPart("")>> >>, NoText),
      Response(<< <<CallPart("get_weather", "{city: Paris}")>> >>, NoText),
      Response(<< <<CallPart("get_time", "{}")>> >>, Text("one moment")),
      Response(<< <<CallPart("lookup_stock", "{}")>> >>, Text("checking")),
      Response(<< <<CallPart("get_time", "{tz: UTC}"), CallPart("get_weather", "{}")>> >>, NoText),
      Response(<< <<TextPart("hello"), CallPart("get_weather", "{}")>> >>, Text("hello")),
      Response(<< <<TextPart("hello")>>, <<CallPart("get_time", "{}")>> >>, Text("hello")) }

\* values a tool's run_json may return
IntValue(i) == [t |-> "int", i |-> i, s |-> ""]

StrValue(s) == [t |-> "str", i |-> 0, s |-> s]

NoneValue == [t |-> "none", i |-> 0, s |-> ""]

ToolResults == { IntValue(42), IntValue(-7), StrValue("sunny"), NoneValue }

(* ---------------------------- pure functions --------------------------- *)

Digit(d) == SubSeq("0123456789", d + 1, d + 1)

RECURSIVE NatStr(_)
NatStr(n) == IF n < 10 THEN Digit(n) ELSE NatStr(n \div 10) \o Digit(n % 10)

\* Python's str() on a tool result
Str(v) ==
    CASE v.t = "int"  -> IF v.i < 0 THEN "-" \o NatStr(-v.i) ELSE NatStr(v.i)
      [] v.t = "str"  -> v.s
      [] v.t = "none" -> "None"

\* a conversion that forgets the label of System messages
PromptPiece_NoLabel(msg) == msg.content \o "\n\n"

\* one iteration of the loop of _convert_messages_to_prompt
PromptPiece(msg) ==
    IF msg.type = "SystemMessage"
    THEN "System: " \o msg.content \o "\n\n"
    ELSE msg.content \o "\n\n"

RECURSIVE ConvertLoop(_, _, _)
ConvertLoop(prompt, msgs, i) ==
    IF i > Len(msgs) THEN prompt
    ELSE ConvertLoop(prompt \o PromptPiece(msgs[i]), msgs, i + 1)

ConvertMessagesToPrompt(msgs) == ConvertLoop("", msgs, 1)

\* `if tools:` is false for None and for an empty list
Truthy(toolArg) == toolArg.present /\ Len(toolArg.list) > 0

FunctionDeclarations(toolArg) ==
    IF Truthy(toolArg)
    THEN [k \in 1..Len(toolArg.list) |-> [name |-> toolArg.list[k].name]]
    ELSE <<>>

NoConfig == [present |-> FALSE, function_declarations |-> <<>>, mode |-> "-"]

BuildConfig(toolArg) ==
    IF Truthy(toolArg)
    THEN [present |-> TRUE,
          function_declarations |-> FunctionDeclarations(toolArg),
          mode |-> "AUTO"]
    ELSE NoConfig

\* an interpretation that inspects the last part instead of the first
FirstFunctionCall_LastPart(resp) ==
    IF Len(resp.candidates) > 0 /\ Len(resp.candidates[1]) > 0
    THEN resp.candidates[1][Len(resp.candidates[1])].function_call
    ELSE NoFunctionCall

\* the function call of parts[0] of candidates[0], if the response has one
FirstFunctionCall(resp) ==
    IF Len(resp.candidates) > 0 /\ Len(resp.candidates[1]) > 0
    THEN resp.candidates[1][1].function_call
    ELSE NoFunctionCall

HasFunctionCall(resp) == FirstFunctionCall(resp).present

\* next((t for t in tools if t.schema['name'] == name), None): index or 0
FindTool(list, name) ==
    LET hits == { k \in 1..Len(list) : list[k].name = name }
    IN  IF hits = {} THEN 0 ELSE CHOOSE k \in hits : \A j \in hits : k <= j

\* a reply that stringifies an absent text instead of emptying it
TextOrEmpty_Leaky(resp) ==
    IF resp.text.present THEN resp.text.s ELSE "None"

\* response.text if response.text else ""
TextOrEmpty(resp) ==
    IF resp.text.present /\ resp.text.s # "" THEN resp.text.s ELSE ""

TextReply(resp) == UserMessage(TextOrEmpty(resp), "assistant")

FunctionResultMessage(v) == UserMessage(Str(v), "function")

(* ---------------------------- state ------------------------------------ *)

VARIABLES
    callerMessages, \* the sequence the caller passed in, as it was at the call
    callerTools,    \* the tools the caller passed in
    entry,          \* the method the caller invoked
    pc,             \* position of the call chain
    depth,          \* number of recursive complete frames below the top one
    messages,       \* the caller-owned message list (mutated in place)
    tools,          \* the tools parameter of the current complete frame
    response,       \* the response of the current frame
    result,         \* the result of the tool the current frame ran
    calls,          \* remote calls made so far
    runs,           \* tool executions started so far
    events,         \* order of remote calls, tool executions and appends
    outcome,        \* how the top-level complete ended
    yielded,        \* elements create_stream has yielded
    delivered       \* what the caller of the entry method observed

vars == << callerMessages, callerTools, entry, pc, depth, messages, tools,
           response, result, calls, runs, events, outcome, yielded, delivered >>

NoOutcome == [kind |-> "none", msg |-> NoMessage, err |-> "-"]

Return(msg) == [kind |-> "return", msg |-> msg, err |-> "-"]

Raise(err) == [kind |-> "raise", msg |-> NoMessage, err |-> err]

Init ==
    /\ callerMessages \in MessageLists
    /\ callerTools \in ToolArgs
    /\ messages = callerMessages
    /\ entry = "-"
    /\ pc = "idle"
    /\ depth = 0
    /\ tools = [present |-> FALSE, list |-> <<>>]
    /\ response = NoResponse
    /\ result = NoneValue
    /\ calls = <<>>
    /\ runs = <<>>
    /\ events = <<>>
    /\ outcome = NoOutcome
    /\ yielded = <<>>
    /\ delivered = NoOutcome

(* ---------------------------- entry points ----------------------------- *)

\* the caller awaits complete(messages, tools)
CallComplete ==
    /\ pc = "idle"
    /\ entry' = "complete"
    /\ tools' = callerTools
    /\ pc' = "start"
    /\ UNCHANGED << callerMessages, callerTools, depth, messages, response,
                    result, calls, runs, events, outcome, yielded, delivered >>

\* create(messages, **kwargs) passes messages and kwargs on to complete
CallCreate ==
    /\ pc = "idle"
    /\ entry' = "create"
    /\ tools' = callerTools
    /\ pc' = "start"
    /\ UNCHANGED << callerMessages, callerTools, depth, messages, response,
                    result, calls, runs, events, outcome, yielded, delivered >>

\* create_stream(messages, **kwargs) passes messages and kwargs on to complete
CallCreateStream ==
    /\ pc = "idle"
    /\ entry' = "create_stream"
    /\ tools' = callerTools
    /\ pc' = "start"
    /\ UNCHANGED << callerMessages, callerTools, depth, messages, response,
                    result, calls, runs, events, outcome, yielded, delivered >>

(* ---------------------------- complete --------------------------------- *)

RemoteCall(ok, resp) ==
    [prompt |-> ConvertMessagesToPrompt(messages),
     config |-> BuildConfig(tools),
     msgs |-> messages,
     depth |-> depth,
     ok |-> ok,
     response |-> resp]

\* lines 21-61: build the prompt and the config, the remote call answers
GenerateContent ==
    /\ pc = "start"
    /\ Len(calls) < MaxRounds
    /\ \E resp \in Responses :
          /\ calls' = Append(calls, RemoteCall(TRUE, resp))
          /\ response' = resp
    /\ events' = Append(events, "remote")
    /\ pc' = "respond"
    /\ UNCHANGED << callerMessages, callerTools, entry, depth, messages, tools,
                    result, runs, outcome, yielded, delivered >>

\* a failing remote call that is tried again instead of propagating
GenerateContentFails_Retries ==
    /\ pc = "start"
    /\ Len(calls) < MaxRounds
    /\ calls' = Append(calls, RemoteCall(FALSE, NoResponse))
    /\ events' = Append(events, "remote_failed")
    /\ pc' = "start"
    /\ UNCHANGED << callerMessages, callerTools, entry, depth, messages, tools,
                    response, result, runs, outcome, yielded, delivered >>

\* lines 21-61: the remote call raises (transport / auth failure)
GenerateContentFails ==
    /\ pc = "start"
    /\ Len(calls) < MaxRounds
    /\ calls' = Append(calls, RemoteCall(FALSE, NoResponse))
    /\ events' = Append(events, "remote_failed")
    /\ outcome' = Raise("TransportError")
    /\ pc' = "unwind"
    /\ UNCHANGED << callerMessages, callerTools, entry, depth, messages, tools,
                    response, result, runs, yielded, delivered >>

\* lines 64-73: the first part requests a tool of the list; run it
RunTool ==
    /\ pc = "respond"
    /\ HasFunctionCall(response)
    /\ tools.present
    /\ FindTool(tools.list, FirstFunctionCall(response).name) # 0
    /\ LET fc == FirstFunctionCall(response)
           tool == tools.list[FindTool(tools.list, fc.name)]
       IN  runs' = Append(runs, [name |-> tool.name, args |-> fc.args,
                                 round |-> Len(calls), status |-> "running",
                                 result |-> NoneValue])
    /\ events' = Append(events, "tool_start")
    /\ pc' = "tool"
    /\ UNCHANGED << callerMessages, callerTools, entry, depth, messages, tools,
                    response, result, calls, outcome, yielded, delivered >>

\* line 69 with tools=None: iterating None raises TypeError
LookupInNone ==
    /\ pc = "respond"
    /\ HasFunctionCall(response)
    /\ ~tools.present
    /\ outcome' = Raise("TypeError")
    /\ pc' = "unwind"
    /\ UNCHANGED << callerMessages, callerTools, entry, depth, messages, tools,
                    response, result, calls, runs, events, yielded, delivered >>

\* lines 69-70, 82-85: no tool of the list has the requested name; fall through
UnknownToolFallsThrough ==
    /\ pc = "respond"
    /\ HasFunctionCall(response)
    /\ tools.present
    /\ FindTool(tools.list, FirstFunctionCall(response).name) = 0
    /\ outcome' = Return(TextReply(response))
    /\ pc' = "unwind"
    /\ UNCHANGED << callerMessages, callerTools, entry, depth, messages, tools,
                    response, result, calls, runs, events, yielded, delivered >>

\* lines 64-66, 82-85: no function call in the first part; return the text
ReturnText ==
    /\ pc = "respond"
    /\ ~HasFunctionCall(response)
    /\ outcome' = Return(TextReply(response))
    /\ pc' = "unwind"
    /\ UNCHANGED << callerMessages, callerTools, entry, depth, messages, tools,
                    response, result, calls, runs, events, yielded, delivered >>

SetLast(s, status, v) ==
    [s EXCEPT ![Len(s)] = [@ EXCEPT !.status = status, !.result = v]]

\* a tool that is run once more when it returns
ToolReturns_RunsAgain ==
    /\ pc = "tool"
    /\ Len(runs) <= MaxRounds
    /\ \E v \in ToolResults :
          /\ result' = v
          /\ runs' = Append(SetLast(runs, "returned", v),
                            [runs[Len(runs)] EXCEPT !.status = "running"])
    /\ events' = Append(events, "tool_end")
    /\ pc' = "tool"
    /\ UNCHANGED << callerMessages, callerTools, entry, depth, messages, tools,
                    response, calls, outcome, yielded, delivered >>

\* line 73: the awaited tool.run_json returns
ToolReturns ==
    /\ pc = "tool"
    /\ \E v \in ToolResults :
          /\ result' = v
          /\ runs' = SetLast(runs, "returned", v)
    /\ events' = Append(events, "tool_end")
    /\ pc' = "append"
    /\ UNCHANGED << callerMessages, callerTools, entry, depth, messages, tools,
                    response, calls, outcome, yielded, delivered >>

\* line 73: the awaited tool.run_json raises
ToolRaises ==
    /\ pc = "tool"
    /\ runs' = SetLast(runs, "raised", NoneValue)
    /\ events' = Append(events, "tool_raised")
    /\ outcome' = Raise("ToolError")
    /\ pc' = "unwind"
    /\ UNCHANGED << callerMessages, callerTools, entry, depth, messages, tools,
                    response, result, calls, yielded, delivered >>

\* a re-call that leaves the tools out
AppendAndRecurse_DropsTools ==
    /\ pc = "append"
    /\ messages' = Append(messages, FunctionResultMessage(result))
    /\ events' = Append(events, "append")
    /\ tools' = [present |-> FALSE, list |-> <<>>]
    /\ depth' = depth + 1
    /\ pc' = "start"
    /\ UNCHANGED << callerMessages, callerTools, entry, response, result,
                    calls, runs, outcome, yielded, delivered >>

\* a result that is put in front of the conversation
AppendAndRecurse_Prepends ==
    /\ pc = "append"
    /\ messages' = << FunctionResultMessage(result) >> \o messages
    /\ events' = Append(events, "append")
    /\ tools' = tools
    /\ depth' = depth + 1
    /\ pc' = "start"
    /\ UNCHANGED << callerMessages, callerTools, entry, response, result,
                    calls, runs, outcome, yielded, delivered >>

\* lines 75-79: append the stringified result, call complete(messages, tools)
AppendAndRecurse ==
    /\ pc = "append"
    /\ messages' = Append(messages, FunctionResultMessage(result))
    /\ events' = Append(events, "append")
    /\ tools' = tools
    /\ depth' = depth + 1
    /\ pc' = "start"
    /\ UNCHANGED << callerMessages, callerTools, entry, response, result,
                    calls, runs, outcome, yielded, delivered >>

\* line 79: `return await self.complete(...)` hands the outcome up one frame
Unwind ==
    /\ pc = "unwind"
    /\ depth > 0
    /\ depth' = depth - 1
    /\ UNCHANGED << callerMessages, callerTools, entry, pc, messages, tools,
                    response, result, calls, runs, events, outcome, yielded,
                    delivered >>

(* ---------------------------- wrappers --------------------------------- *)

\* the top-level complete hands its outcome to its caller
CompleteEnds ==
    /\ pc = "unwind"
    /\ depth = 0
    /\ entry = "complete"
    /\ delivered' = outcome
    /\ pc' = "done"
    /\ UNCHANGED << callerMessages, callerTools, entry, depth, messages, tools,
                    response, result, calls, runs, events, outcome, yielded >>

\* line 111: return await self.complete(messages, **kwargs)
CreateEnds ==
    /\ pc = "unwind"
    /\ depth = 0
    /\ entry = "create"
    /\ delivered' = outcome
    /\ pc' = "done"
    /\ UNCHANGED << callerMessages, callerTools, entry, depth, messages, tools,
                    response, result, calls, runs, events, outcome, yielded >>

\* a generator that yields the result twice
StreamYields_Twice ==
    /\ pc = "unwind"
    /\ depth = 0
    /\ entry = "create_stream"
    /\ outcome.kind = "return"
    /\ yielded' = yielded \o << outcome.msg, outcome.msg >>
    /\ pc' = "yielded"
    /\ UNCHANGED << callerMessages, callerTools, entry, depth, messages, tools,
                    response, result, calls, runs, events, outcome, delivered >>

\* lines 115-116: complete returned; yield its result
StreamYields ==
    /\ pc = "unwind"
    /\ depth = 0
    /\ entry = "create_stream"
    /\ outcome.kind = "return"
    /\ yielded' = Append(yielded, outcome.msg)
    /\ pc' = "yielded"
    /\ UNCHANGED << callerMessages, callerTools, entry, depth, messages, tools,
                    response, result, calls, runs, events, outcome, delivered >>

\* after line 116 the generator body ends
StreamEnds ==
    /\ pc = "yielded"
    /\ delivered' = [kind |-> "exhausted", msg |-> NoMessage, err |-> "-"]
    /\ pc' = "done"
    /\ UNCHANGED << callerMessages, callerTools, entry, depth, messages, tools,
                    response, result, calls, runs, events, outcome, yielded >>

\* line 115: complete raised; the exception leaves the generator
StreamRaises ==
    /\ pc = "unwind"
    /\ depth = 0
    /\ entry = "create_stream"
    /\ outcome.kind = "raise"
    /\ delivered' = outcome
    /\ pc' = "done"
    /\ UNCHANGED << callerMessages, callerTools, entry, depth, messages, tools,
                    response, result, calls, runs, events, outcome, yielded >>

Next ==
    \/ CallComplete
    \/ CallCreate
    \/ CallCreateStream
    \/ GenerateContent
    \/ GenerateContentFails
    \/ RunTool
    \/ LookupInNone
    \/ UnknownToolFallsThrough
    \/ ReturnText
    \/ ToolReturns
    \/ ToolRaises
    \/ AppendAndRecurse
    \/ Unwind
    \/ CompleteEnds
    \/ CreateEnds
    \/ StreamYields
    \/ StreamEnds
    \/ StreamRaises

Spec == Init /\ [][Next]_vars

(* ---------------------------- properties ------------------------------ *)

LastCall == calls[Len(calls)]

\* complete has ended on the response of the latest remote call
EndedOnResponse ==
    /\ outcome.kind # "none"
    /\ Len(calls) > 0
    /\ LastCall.ok

\* the first part of the first candidate carries a function-invocation request
RequestsTool(resp) ==
    /\ resp.candidates # <<>>
    /\ resp.candidates[1] # <<>>
    /\ resp.candidates[1][1].function_call.present

RequestedName(resp) == resp.candidates[1][1].function_call.name

RequestedArgs(resp) == resp.candidates[1][1].function_call.args

Names(toolArg) == { toolArg.list[k].name : k \in 1..Len(toolArg.list) }

\* C1: when the first part requests a tool whose name matches no tool of the
\* tool list passed to complete (an empty list included), complete ends in
\* an explicit "unresolvable tool" error, never in an ordinary assistant
\* message.
C1_UnknownToolIsAnError ==
    ( /\ EndedOnResponse
      /\ RequestsTool(LastCall.response)
      /\ callerTools.present
      /\ RequestedName(LastCall.response) \notin Names(callerTools) )
    => /\ outcome.kind = "raise"
       /\ outcome.err = "UnresolvableToolError"

\* C2: a request for a tool of the list is followed by the execution of that
\* tool with the requested arguments, then by the append of one
\* source="function" message holding the stringified result, then by a
\* second remote call whose prompt is built from the extended sequence and
\* which is given the same tool list.
C2_ExecuteAppendRecall ==
    /\ \A k \in 1..Len(calls) :
          ( /\ calls[k].ok
            /\ RequestsTool(calls[k].response)
            /\ callerTools.present
            /\ RequestedName(calls[k].response) \in Names(callerTools)
            /\ (k < Len(calls) \/ pc # "respond") )
          => /\ Len(runs) >= k
             /\ runs[k].name = RequestedName(calls[k].response)
             /\ runs[k].args = RequestedArgs(calls[k].response)
    /\ \A k \in 2..Len(calls) :
          LET prev == calls[k - 1]
              text == Str(runs[k - 1].result)
          IN  /\ prev.ok
              /\ RequestsTool(prev.response)
              /\ runs[k - 1].status = "returned"
              /\ runs[k - 1].name = RequestedName(prev.response)
              /\ runs[k - 1].args = RequestedArgs(prev.response)
              /\ calls[k].msgs =
                    Append(prev.msgs, [type |-> "UserMessage", content |-> text,
                                       source |-> "function"])
              /\ calls[k].prompt = prev.prompt \o text \o "\n\n"
              /\ calls[k].config = prev.config
              /\ calls[k].config.function_declarations
                    = [j \in 1..Len(callerTools.list) |-> [name |-> callerTools.list[j].name]]

C2_Witness ==
    /\ Len(calls) >= 2
    /\ runs[1].result = IntValue(-7)
    /\ Len(callerTools.list) = 2

\* C3: with a non-empty message sequence and no tools (tools absent),
\* whatever the remote service responds, exactly one remote call is made
\* and complete returns a message with source="assistant".
C3_NoToolsOneCallAssistant ==
    ( /\ pc = "done"
      /\ ~callerTools.present
      /\ Len(callerMessages) > 0
      /\ \A k \in 1..Len(calls) : calls[k].ok )
    => /\ Len(calls) = 1
       /\ outcome.kind = "return"
       /\ outcome.msg.source = "assistant"

\* C4: when the first part carries no function-invocation request, complete
\* returns a source="assistant" message whose content is the response text
\* when text is present and the empty string when the text is absent; an
\* absent text is never an error.
C4_TextReply ==
    ( /\ EndedOnResponse
      /\ ~RequestsTool(LastCall.response) )
    => /\ outcome.kind = "return"
       /\ outcome.msg.source = "assistant"
       /\ outcome.msg.type = "UserMessage"
       /\ outcome.msg.content =
             (IF LastCall.response.text.present
              THEN LastCall.response.text.s ELSE "")

C4_Witness ==
    /\ pc = "done"
    /\ LastCall.ok
    /\ LastCall.response = Response(<< <<TextPart("")>> >>, NoText)
    /\ delivered = Return(UserMessage("", "assistant"))
    /\ Len(calls) = 2

\* C5: a failure of the remote call, at any round, is the outcome of
\* complete: no message is returned, no remote call and no tool execution
\* follows it.
C5_FailurePropagates ==
    \A k \in 1..Len(calls) :
        ~calls[k].ok =>
            /\ k = Len(calls)
            /\ events[Len(events)] = "remote_failed"
            /\ Len(runs) = k - 1
            /\ \A j \in 1..Len(runs) : runs[j].status = "returned"
            /\ outcome = [kind |-> "raise", msg |-> NoMessage, err |-> "TransportError"]
            /\ yielded = <<>>
            /\ pc \in {"unwind", "done"}
            /\ (pc = "done" => delivered = outcome)

C5_Witness ==
    /\ pc = "done"
    /\ Len(calls) = 2
    /\ ~calls[2].ok
    /\ delivered.err = "TransportError"

\* C6 as stated: within one top-level complete call at most one
\* re-submission happens (at most two remote calls, at most one tool
\* execution).
C6_AtMostOneResubmission ==
    /\ Len(calls) <= 2
    /\ Len(runs) <= 1

\* C6 as amended: every complete frame makes one remote call, runs at most
\* one tool and re-calls at most once; the k-th remote call of a chain is
\* made k-1 frames deep, after exactly k-1 tool executions that returned,
\* and the chain has no limit of its own.
C6_OneRecallPerFrame ==
    /\ Len(runs) \in {Len(calls) - 1, Len(calls)}
    /\ \A k \in 1..Len(calls) : calls[k].depth = k - 1
    /\ \A k \in 1..Len(runs) : runs[k].round = k
    /\ \A k \in 2..Len(calls) : runs[k - 1].status = "returned"
    /\ depth <= Len(calls)
    /\ (pc = "done" => depth = 0)

C6_Witness ==
    /\ Len(calls) >= 3
    /\ Len(runs) >= 2
    /\ pc = "done"

PieceLen(msg) ==
    Len(msg.content) + 2 + (IF msg.type = "SystemMessage" THEN 8 ELSE 0)

RECURSIVE Offset(_, _)
Offset(msgs, k) == IF k <= 1 THEN 0 ELSE Offset(msgs, k - 1) + PieceLen(msgs[k - 1])

\* C7: the prompt is the concatenation, in sequence order, of
\* "System: {content}\n\n" for a System message and "{content}\n\n" for
\* every other message; with a System message first the prompt begins with
\* "System: {content}\n\n" of that message.
C7_PromptLayout ==
    \A c \in 1..Len(calls) :
        LET p == calls[c].prompt
            msgs == calls[c].msgs
        IN  /\ Len(p) = Offset(msgs, Len(msgs) + 1)
            /\ \A k \in 1..Len(msgs) :
                  LET piece == SubSeq(p, Offset(msgs, k) + 1, Offset(msgs, k + 1))
                      n == Len(msgs[k].content)
                  IN  IF msgs[k].type = "SystemMessage"
                      THEN /\ SubSeq(piece, 1, 8) = "System: "
                           /\ SubSeq(piece, 9, 8 + n) = msgs[k].content
                           /\ SubSeq(piece, 9 + n, 10 + n) = "\n\n"
                      ELSE /\ SubSeq(piece, 1, n) = msgs[k].content
                           /\ SubSeq(piece, n + 1, n + 2) = "\n\n"
            /\ msgs[1].type = "SystemMessage" =>
                  SubSeq(p, 1, 10 + Len(msgs[1].content))
                      = "System: " \o msgs[1].content \o "\n\n"

C7_Witness ==
    /\ Len(calls) >= 2
    /\ calls[2].msgs[1].type = "SystemMessage"
    /\ calls[2].msgs[2].type = "UserMessage"
    /\ Len(calls[2].msgs) = 3
    /\ calls[2].prompt = "System: be brief\n\nhi\n\n42\n\n"

\* C8 as stated: for every message sequence and remote behaviour,
\* create_stream yields exactly one element and then ends, the element
\* being what complete returns (checked for callers that pass a tool list).
C8_StreamYieldsExactlyOne ==
    ( /\ pc = "done"
      /\ entry = "create_stream"
      /\ callerTools.present )
    => /\ Len(yielded) = 1
       /\ yielded[1] = outcome.msg
       /\ delivered.kind = "exhausted"

\* C8 as amended: create_stream hands complete the caller's messages and
\* tools and has complete's outcome: when complete returns a message the
\* stream yields exactly that one element and then ends; when complete
\* fails the stream yields nothing and the same error reaches the caller.
C8_StreamMirrorsComplete ==
    ( /\ pc = "done"
      /\ entry = "create_stream" )
    => /\ tools = callerTools
       /\ calls[1].msgs = callerMessages
       /\ outcome.kind \in {"return", "raise"}
       /\ outcome.kind = "return" =>
             /\ yielded = << outcome.msg >>
             /\ delivered.kind = "exhausted"
       /\ outcome.kind = "raise" =>
             /\ yielded = <<>>
             /\ delivered = outcome

C8_Witness ==
    /\ pc = "done"
    /\ entry = "create_stream"
    /\ Len(calls) = 2
    /\ yielded = << UserMessage("hello", "assistant") >>

NumReturned == Cardinality({ k \in 1..Len(runs) : runs[k].status = "returned" })

\* C9: complete changes the caller-owned sequence only by appending: the
\* original entries stay in place, and after the call the sequence is the
\* original one followed by one source="function" entry per tool execution
\* that returned, in execution order (nothing when no tool was executed).
C9_OnlyAppends ==
    /\ Len(messages) >= Len(callerMessages)
    /\ SubSeq(messages, 1, Len(callerMessages)) = callerMessages
    /\ \A k \in 1..(Len(messages) - Len(callerMessages)) :
          /\ k <= Len(runs)
          /\ runs[k].status = "returned"
          /\ messages[Len(callerMessages) + k]
                = [type |-> "UserMessage", content |-> Str(runs[k].result),
                   source |-> "function"]
    /\ (pc = "done" => Len(messages) = Len(callerMessages) + NumReturned)
    /\ (Len(runs) = 0 => messages = callerMessages)

C9_Witness ==
    /\ pc = "done"
    /\ Len(messages) = Len(callerMessages) + 2
    /\ Len(runs) = 2
    /\ outcome.kind = "return"

NumRunning == Cardinality({ k \in 1..Len(runs) : runs[k].status = "running" })

\* C10: remote calls and tool executions alternate: a tool execution starts
\* only right after a remote call and is the one the first part of the
\* first candidate of that call's response requests, at most one per round
\* trip; at most one tool execution is in progress; a remote call starts
\* first or right after the append of the tool's result.
C10_SequentialAlternation ==
    /\ NumRunning <= 1
    /\ (NumRunning = 1 <=> pc = "tool")
    /\ \A i \in 1..Len(events) :
          /\ events[i] \in {"remote", "remote_failed"} =>
                (i = 1 \/ events[i - 1] = "append")
          /\ events[i] = "tool_start" => (i > 1 /\ events[i - 1] = "remote")
          /\ events[i] \in {"tool_end", "tool_raised"} =>
                (i > 1 /\ events[i - 1] = "tool_start")
          /\ events[i] = "append" => (i > 1 /\ events[i - 1] = "tool_end")
    /\ \A i, j \in 1..Len(runs) : runs[i].round = runs[j].round => i = j
    /\ \A j \in 1..Len(runs) :
          LET resp == calls[runs[j].round].response
          IN  /\ RequestsTool(resp)
              /\ runs[j].name = RequestedName(resp)
              /\ runs[j].args = RequestedArgs(resp)

C10_Witness ==
    /\ Len(runs) = 2
    /\ Len(calls[1].response.candidates[1]) = 2
    /\ runs[1].name = "get_time"
    /\ runs[2].status = "running"

====
